---- MODULE Spec2Model ----
(***************************************************************************)
(* Model of the ingress annotation controller of src/src/main.rs:          *)
(* reconcile, apply and error_policy, with the ingress and the secret they *)
(* read and the merge patch they send.                                     *)
(*                                                                         *)
(* A string is a sequence of symbols.  A symbol is one character, except   *)
(* that the text of each of the three reserved annotation keys is written  *)
(* as one symbol.  A secret's `data` value is a sequence of bytes: the     *)
(* same symbols, plus one byte that is no valid UTF-8.                     *)
(***************************************************************************)
EXTENDS Integers, Sequences, FiniteSets, TLC

\* ------------------------------------------------------------------ bounds

\* The number of writes by the ingress's owner and of updates of the secret in
\* one behaviour.
MaxEnvSteps == 2

\* --------------------------------------------------------------- constants

SECRET_ANNOTATION == <<"kirillorlov.pro/annotationsFromSecretName">>
SECRET_ANNOTATION_STATE == <<"kirillorlov.pro/annotationsFromSecretState">>
LAST_APPLIED == <<"kubectl.kubernetes.io/last-applied-configuration">>

\* The seconds of Action::requeue in reconcile and in error_policy.
RequeueSecs == 300
ErrorRequeueSecs == 60

\* The one secret of the ingress's namespace is named "s".
SecretName == <<"s">>

\* A byte that cannot occur in UTF-8 text.
InvalidByte == "0xFF"

\* The symbols in ascending byte order of their text (the order of String's Ord,
\* which BTreeMap iterates in).
SymbolOrder ==
  << "\"", "$", ",", "-", "1", "2", "3", ":", "A", "B", "\\", "e",
     SECRET_ANNOTATION[1], SECRET_ANNOTATION_STATE[1], LAST_APPLIED[1],
     "o", "s", "t", "{", "}", InvalidByte >>

Rank(c) == CHOOSE i \in 1..Len(SymbolOrder) : SymbolOrder[i] = c

\* ----------------------------------------------------------------- strings

\* a < b in the lexicographic order of String
RECURSIVE StrLess(_, _)
StrLess(a, b) ==
  IF b = <<>> THEN FALSE
  ELSE IF a = <<>> THEN TRUE
  ELSE IF Head(a) = Head(b) THEN StrLess(Tail(a), Tail(b))
  ELSE Rank(Head(a)) < Rank(Head(b))

\* The elements of a set of strings in ascending order: the iteration order of
\* a BTreeMap with these keys.
RECURSIVE SortedKeys(_)
SortedKeys(S) ==
  IF S = {} THEN <<>>
  ELSE LET m == CHOOSE x \in S : \A y \in S \ {x} : StrLess(x, y)
       IN <<m>> \o SortedKeys(S \ {m})

StartsWith(s, p) == Len(s) >= Len(p) /\ SubSeq(s, 1, Len(p)) = p

\* str::contains
Contains(s, p) == \E i \in 1..(Len(s) + 1) : StartsWith(SubSeq(s, i, Len(s)), p)

\* As Replace, but only the first match is replaced (str::replacen(.., 1)).
RECURSIVE ReplaceFirst(_, _, _)
ReplaceFirst(s, from, to) ==
  IF Len(s) < Len(from) THEN s
  ELSE IF StartsWith(s, from) THEN to \o SubSeq(s, Len(from) + 1, Len(s))
  ELSE <<Head(s)>> \o ReplaceFirst(Tail(s), from, to)

\* str::replace with a non-empty pattern: every non-overlapping match, left to
\* right; the replacement text is not scanned again.
RECURSIVE Replace(_, _, _)
Replace(s, from, to) ==
  IF Len(s) < Len(from) THEN s
  ELSE IF StartsWith(s, from) THEN to \o Replace(SubSeq(s, Len(from) + 1, Len(s)), from, to)
  ELSE <<Head(s)>> \o Replace(Tail(s), from, to)

\* String::from_utf8: Ok exactly when no byte is invalid; the text is the bytes.
Utf8Ok(bytes) == \A i \in 1..Len(bytes) : bytes[i] # InvalidByte

\* -------------------------------------------------------------------- maps

EmptyMap == <<>>

Insert(m, k, v) == [x \in DOMAIN m \cup {k} |-> IF x = k THEN v ELSE m[x]]

Some(x) == [some |-> TRUE, v |-> x]
None == [some |-> FALSE, v |-> <<>>]

\* ------------------------------------------------------------------- serde

\* serde_json's string escape over the symbols of the model
RECURSIVE Escape(_)
Escape(s) ==
  IF s = <<>> THEN <<>>
  ELSE IF Head(s) \in {"\"", "\\"} THEN <<"\\", Head(s)>> \o Escape(Tail(s))
  ELSE <<Head(s)>> \o Escape(Tail(s))

Quote(s) == <<"\"">> \o Escape(s) \o <<"\"">>

RECURSIVE Members(_, _)
Members(m, keys) ==
  IF keys = <<>> THEN <<>>
  ELSE Quote(Head(keys)) \o <<":">> \o Quote(m[Head(keys)])
       \o (IF Len(keys) > 1 THEN <<",">> ELSE <<>>) \o Members(m, Tail(keys))

\* serde_json::to_string of a BTreeMap<String, String>
to_string(m) == <<"{">> \o Members(m, SortedKeys(DOMAIN m)) \o <<"}">>

ParseError == [ok |-> FALSE, v |-> <<>>, next |-> 0]

\* The characters of a JSON string from position i (after the opening quote):
\* [ok, v, next], next being the position after the closing quote.
RECURSIVE ParseChars(_, _, _)
ParseChars(s, i, acc) ==
  IF i > Len(s) THEN ParseError
  ELSE IF s[i] = "\"" THEN [ok |-> TRUE, v |-> acc, next |-> i + 1]
  ELSE IF s[i] = "\\" THEN
    IF i + 1 <= Len(s) /\ s[i + 1] \in {"\"", "\\"}
    THEN ParseChars(s, i + 2, Append(acc, s[i + 1]))
    ELSE ParseError
  ELSE ParseChars(s, i + 1, Append(acc, s[i]))

ParseString(s, i) ==
  IF i <= Len(s) /\ s[i] = "\"" THEN ParseChars(s, i + 1, <<>>) ELSE ParseError

\* The members of a JSON object from position i (at a key): "key":"value" then
\* "," and another member, or "}" and the end of the text.  A later member of
\* the same key replaces an earlier one.
RECURSIVE ParseMembers(_, _, _)
ParseMembers(s, i, acc) ==
  LET k == ParseString(s, i) IN
  IF ~k.ok \/ k.next > Len(s) \/ s[k.next] # ":" THEN ParseError
  ELSE LET v == ParseString(s, k.next + 1) IN
    IF ~v.ok \/ v.next > Len(s) THEN ParseError
    ELSE LET m == Insert(acc, k.v, v.v) IN
      IF s[v.next] = "," THEN ParseMembers(s, v.next + 1, m)
      ELSE IF s[v.next] = "}" /\ v.next = Len(s) THEN [ok |-> TRUE, v |-> m, next |-> v.next + 1]
      ELSE ParseError

\* serde_json::from_str::<BTreeMap<String, String>>
from_str(s) ==
  IF Len(s) < 2 \/ s[1] # "{" THEN ParseError
  ELSE IF s[2] = "}" THEN (IF Len(s) = 2 THEN [ok |-> TRUE, v |-> EmptyMap, next |-> 3] ELSE ParseError)
  ELSE ParseMembers(s, 2, EmptyMap)

\* ------------------------------------------------------------------- apply

\* As Token, but the key alone, without the "$" around it.
BareToken(replacement_key) == replacement_key

Token(replacement_key) == <<"$">> \o replacement_key \o <<"$">>

\* The replacement set: every `data` entry decoded, then every `stringData`
\* entry over it.  String::from_utf8(..).unwrap() panics on the first entry
\* that is no UTF-8.
Replacements(secret_) ==
  LET data == IF secret_.data.some THEN secret_.data.v ELSE EmptyMap
      string_data == IF secret_.string_data.some THEN secret_.string_data.v ELSE EmptyMap
  IN [ panic |-> \E k \in DOMAIN data : ~Utf8Ok(data[k]),
       v |-> [k \in DOMAIN data \cup DOMAIN string_data |->
                IF k \in DOMAIN string_data THEN string_data[k] ELSE data[k]] ]

\* old_items: the journal decoded from the state annotation; empty when the
\* annotation is absent or does not parse.
OldItems(annotations_) ==
  IF SECRET_ANNOTATION_STATE \in DOMAIN annotations_
  THEN LET result == from_str(annotations_[SECRET_ANNOTATION_STATE])
       IN IF result.ok THEN result.v ELSE EmptyMap
  ELSE EmptyMap

\* The keys the outer loop does not `continue` on.
ScannedKeys(annotations_) ==
  DOMAIN annotations_ \ {LAST_APPLIED, SECRET_ANNOTATION_STATE}

OriginalValue(key, value, old_items) ==
  IF key \in DOMAIN old_items THEN old_items[key] ELSE value

\* As InnerLoop, but a key does not overwrite what an earlier key staged.
RECURSIVE InnerLoopFirstWins(_, _, _, _, _)
InnerLoopFirstWins(value, original_value, replacements, keys, staged) ==
  IF keys = <<>> THEN staged
  ELSE LET x == Token(Head(keys))
           replaced_value == Replace(original_value, x, replacements[Head(keys)])
       IN InnerLoopFirstWins(value, original_value, replacements, Tail(keys),
            IF ~staged.some /\ Contains(original_value, x) /\ replaced_value # value
            THEN Some(replaced_value)
            ELSE staged)

\* The inner loop over the replacements in ascending key order, for one
\* annotation: `staged` is what updated_annotations holds for the key so far.
RECURSIVE InnerLoop(_, _, _, _, _)
InnerLoop(value, original_value, replacements, keys, staged) ==
  IF keys = <<>> THEN staged
  ELSE LET x == Token(Head(keys))
           replaced_value == Replace(original_value, x, replacements[Head(keys)])
       IN InnerLoop(value, original_value, replacements, Tail(keys),
            IF Contains(original_value, x) /\ replaced_value # value
            THEN Some(replaced_value)
            ELSE staged)

Staged(key, annotations_, old_items, replacements) ==
  InnerLoop(annotations_[key], OriginalValue(key, annotations_[key], old_items),
            replacements, SortedKeys(DOMAIN replacements), None)

\* updated_annotations and old_values after the outer loop
UpdatedAnnotations(annotations_, old_items, replacements) ==
  LET keys == {k \in ScannedKeys(annotations_) :
                 Staged(k, annotations_, old_items, replacements).some}
  IN [k \in keys |-> Staged(k, annotations_, old_items, replacements).v]

OldValues(annotations_, old_items, replacements) ==
  [k \in DOMAIN UpdatedAnnotations(annotations_, old_items, replacements) |->
     OriginalValue(k, annotations_[k], old_items)]

\* As Plan, but without the return of Ok(0): a patch is sent also when nothing
\* is staged, with the state annotation alone.
PlanAlways(annotations_, old_items, replacements) ==
  LET updated_annotations == UpdatedAnnotations(annotations_, old_items, replacements)
      old_values == OldValues(annotations_, old_items, replacements)
  IN Some(Insert(updated_annotations, SECRET_ANNOTATION_STATE, to_string(old_values)))

\* The annotations of the merge patch apply sends, or None when nothing is
\* staged and apply returns Ok(0).
Plan(annotations_, old_items, replacements) ==
  LET updated_annotations == UpdatedAnnotations(annotations_, old_items, replacements)
      old_values == OldValues(annotations_, old_items, replacements)
  IN IF updated_annotations = EmptyMap THEN None
     ELSE Some(Insert(updated_annotations, SECRET_ANNOTATION_STATE, to_string(old_values)))

\* As Apply, but the journal is decoded with unwrap(): a state annotation that
\* does not parse panics.
ApplyUnwrapJournal(annotations_, secret_) ==
  LET r == Replacements(secret_)
      malformed == /\ SECRET_ANNOTATION_STATE \in DOMAIN annotations_
                   /\ ~from_str(annotations_[SECRET_ANNOTATION_STATE]).ok
  IN IF r.panic \/ malformed THEN [panic |-> TRUE, patch |-> None]
     ELSE [panic |-> FALSE, patch |-> Plan(annotations_, OldItems(annotations_), r.v)]

\* apply up to its patch call: [panic, patch].
Apply(annotations_, secret_) ==
  LET r == Replacements(secret_)
  IN IF r.panic THEN [panic |-> TRUE, patch |-> None]
     ELSE [panic |-> FALSE, patch |-> Plan(annotations_, OldItems(annotations_), r.v)]

\* A JSON merge patch of metadata.annotations on the live object.
MergePatch(live, patch_) ==
  Some([k \in DOMAIN live.v \cup DOMAIN patch_ |->
          IF k \in DOMAIN patch_ THEN patch_[k] ELSE live.v[k]])

\* ---------------------------------------------------------------- outcomes

\* Action::await_change(), Action::requeue(d): the requeue_after of the Action.
await_change == None
requeue(secs) == Some(secs)

\* What the controller does with the Err a reconcile returns.
error_policy == requeue(ErrorRequeueSecs)

\* How a reconcile ends: Ok(action), or Err(e) with the action error_policy
\* gives.  NotRun: no reconcile has ended; Running: one is under way; Panicked:
\* it panicked, and the controller with it.
Ok(action) == [result |-> "Ok", action |-> action]
Err == [result |-> "Err", action |-> error_policy]
NotRun == [result |-> "none", action |-> None]
Running == [result |-> "running", action |-> None]
Panicked == [result |-> "panic", action |-> None]

\* ------------------------------------------------------------- environment

A == <<"A">>
B == <<"B">>
e == <<"e">>
o == <<"o">>

\* Annotation texts the owner writes.
TwoTokens == <<"$", "A", "$", "-", "$", "B", "$">>
OneToken == <<"$", "A", "$">>
OtherToken == <<"$", "B", "$">>
Twice == <<"$", "A", "$", "\"", "$", "A", "$">>
Plain == <<"A", "-", "1">>
Malformed == <<"{">>
NotStrings == <<"{", "\"", "e", "\"", ":", "1", "}">>
HandWritten == to_string(Insert(EmptyMap, SECRET_ANNOTATION, OneToken))

Map1(k1, v1) == Insert(EmptyMap, k1, v1)
Map2(k1, v1, k2, v2) == Insert(Map1(k1, v1), k2, v2)
Map3(k1, v1, k2, v2, k3, v3) == Insert(Map2(k1, v1, k2, v2), k3, v3)
Map4(k1, v1, k2, v2, k3, v3, k4, v4) == Insert(Map3(k1, v1, k2, v2, k3, v3), k4, v4)

\* The ingresses the controller may find when it starts.
Ingresses ==
  { None,
    Some(Map1(e, OneToken)),
    Some(Map2(SECRET_ANNOTATION, SecretName, e, TwoTokens)),
    Some(Map3(SECRET_ANNOTATION, SecretName, e, OneToken, o, OtherToken)),
    Some(Map4(SECRET_ANNOTATION, SecretName, e, Twice, o, Plain, LAST_APPLIED, OneToken)),
    Some(Map3(SECRET_ANNOTATION, SecretName, e, OneToken, SECRET_ANNOTATION_STATE, Malformed)),
    Some(Map2(SECRET_ANNOTATION, SecretName, SECRET_ANNOTATION_STATE, HandWritten)),
    Some(Map2(SECRET_ANNOTATION, <<"t">>, e, OneToken)) }

\* The contents the secret may have.
Secrets ==
  { [data |-> None, string_data |-> Some(Map2(A, <<"1">>, B, <<"2">>))],
    [data |-> Some(Map1(A, <<"1">>)), string_data |-> None],
    [data |-> Some(Map2(A, <<"1">>, B, <<"2">>)), string_data |-> Some(Map1(A, <<"3">>))],
    [data |-> Some(Map2(A, <<"1">>, B, <<InvalidByte>>)), string_data |-> None],
    [data |-> None, string_data |-> Some(Map2(A, <<"3">>, B, <<"3">>))],
    [data |-> None, string_data |-> Some(Map2(A, OneToken, B, <<"3">>))],
    [data |-> None, string_data |-> Some(Map2(A, OtherToken, B, <<"2">>))],
    [data |-> None, string_data |-> Some(Map2(A, OtherToken, B, <<"3">>))],
    [data |-> Some(Map1(A, <<InvalidByte>>)), string_data |-> Some(Map2(A, <<"1">>, B, <<"2">>))] }

\* What the owner writes to the ingress while the controller runs.
OwnerWrites ==
  { <<e, OtherToken>>, <<e, Plain>>,
    <<SECRET_ANNOTATION_STATE, Malformed>>, <<SECRET_ANNOTATION_STATE, NotStrings>> }
OwnerRemoves == { SECRET_ANNOTATION }

\* ------------------------------------------------------------------- state

VARIABLES
  annotations,   \* metadata.annotations of the live ingress (an Option of a map)
  secret,        \* the live secret: [data, string_data], each an Option of a map
  pc,            \* where the controller is: idle, get_secret, patch, crashed
  ingress,       \* the annotations of the snapshot the running or last reconcile got
  fetched,       \* the secret that reconcile fetched, if it fetched one
  patch,         \* the annotations of the merge patch that reconcile sent, if any
  outcome,       \* how that reconcile ended
  envSteps,      \* the owner's writes and the secret's updates so far
  disturbed,     \* the owner or the secret changed since that reconcile started
  settled,       \* the last finished reconcile succeeded, and nothing changed since it started
  template,      \* the annotations as the owner wrote them before the controller ran
  edited,        \* the annotation keys the owner wrote by hand since
  substituted,   \* the annotation keys an applied patch has given a value
  rotated        \* the keys of `substituted` with a token whose secret value changed afterwards

vars == <<annotations, secret, pc, ingress, fetched, patch, outcome, envSteps,
          disturbed, settled, template, edited, substituted, rotated>>

history == <<template, edited, substituted, rotated>>

Init ==
  /\ annotations \in Ingresses
  /\ secret \in Secrets
  /\ pc = "idle"
  /\ ingress = None
  /\ fetched = None
  /\ patch = None
  /\ outcome = NotRun
  /\ envSteps = 0
  /\ disturbed = FALSE
  /\ settled = FALSE
  /\ template = annotations
  /\ edited = IF annotations.some
              THEN DOMAIN annotations.v \cap {SECRET_ANNOTATION_STATE}
              ELSE {}
  /\ substituted = {}
  /\ rotated = {}

\* ---------------------------------------------------------------- reconcile

\* As ReconcileStart, but without the early return on a missing trigger
\* annotation: only an ingress without annotations is left alone.
ReconcileStartAnyAnnotations ==
  /\ pc = "idle"
  /\ ingress' = annotations
  /\ fetched' = None
  /\ patch' = None
  /\ disturbed' = FALSE
  /\ IF ~annotations.some
     THEN /\ pc' = "idle"
          /\ outcome' = Ok(await_change)
          /\ settled' = FALSE
     ELSE /\ pc' = "get_secret"
          /\ outcome' = Running
          /\ UNCHANGED settled
  /\ UNCHANGED <<annotations, secret, envSteps, history>>

\* reconcile up to the secret's get: the two early returns.
ReconcileStart ==
  /\ pc = "idle"
  /\ ingress' = annotations
  /\ fetched' = None
  /\ patch' = None
  /\ disturbed' = FALSE
  /\ IF ~annotations.some \/ SECRET_ANNOTATION \notin DOMAIN annotations.v
     THEN /\ pc' = "idle"
          /\ outcome' = Ok(await_change)
          /\ settled' = FALSE
     ELSE /\ pc' = "get_secret"
          /\ outcome' = Running
          /\ UNCHANGED settled
  /\ UNCHANGED <<annotations, secret, envSteps, history>>

\* As GetSecretFails, but the error is swallowed: apply runs on an empty secret
\* and reconcile returns Ok.
GetSecretFailsSwallowed ==
  /\ pc = "get_secret"
  /\ pc' = "idle"
  /\ outcome' = Ok(requeue(RequeueSecs))
  /\ settled' = FALSE
  /\ UNCHANGED <<annotations, secret, ingress, fetched, patch, envSteps, disturbed, history>>

\* secret_api.get fails: reconcile returns the error, error_policy requeues.
GetSecretFails ==
  /\ pc = "get_secret"
  /\ pc' = "idle"
  /\ outcome' = Err
  /\ settled' = FALSE
  /\ UNCHANGED <<annotations, secret, ingress, fetched, patch, envSteps, disturbed, history>>

\* secret_api.get returns the secret, and apply runs up to its patch call.
GetSecret ==
  /\ pc = "get_secret"
  /\ ingress.v[SECRET_ANNOTATION] = SecretName
  /\ fetched' = Some(secret)
  /\ LET r == Apply(ingress.v, secret) IN
       IF r.panic
       THEN pc' = "crashed" /\ outcome' = Panicked /\ settled' = FALSE /\ UNCHANGED patch
       ELSE IF r.patch.some
       THEN pc' = "patch" /\ patch' = r.patch /\ UNCHANGED <<outcome, settled>>
       ELSE pc' = "idle" /\ outcome' = Ok(requeue(RequeueSecs)) /\ settled' = ~disturbed /\ UNCHANGED patch
  /\ UNCHANGED <<annotations, secret, ingress, envSteps, disturbed, history>>

\* api.patch succeeds: the merge patch is applied to the live ingress.
PatchIngress ==
  /\ pc = "patch"
  /\ annotations' = MergePatch(annotations, patch.v)
  /\ pc' = "idle"
  /\ outcome' = Ok(requeue(RequeueSecs))
  /\ settled' = ~disturbed
  /\ substituted' = substituted \cup (DOMAIN patch.v \ {SECRET_ANNOTATION_STATE})
  /\ UNCHANGED <<secret, ingress, fetched, patch, envSteps, disturbed, template, edited, rotated>>

\* api.patch fails: apply returns the error, error_policy requeues.
PatchFails ==
  /\ pc = "patch"
  /\ pc' = "idle"
  /\ outcome' = Err
  /\ settled' = FALSE
  /\ UNCHANGED <<annotations, secret, ingress, fetched, patch, envSteps, disturbed, history>>

\* --------------------------------------------------- owner and secret store

OwnerSet(k, v) ==
  /\ pc # "crashed"
  /\ envSteps < MaxEnvSteps
  /\ annotations.some
  /\ annotations' = Some(Insert(annotations.v, k, v))
  /\ annotations' # annotations
  /\ envSteps' = envSteps + 1
  /\ edited' = edited \cup {k}
  /\ disturbed' = TRUE
  /\ settled' = FALSE
  /\ UNCHANGED <<secret, pc, ingress, fetched, patch, outcome, template, substituted, rotated>>

OwnerRemove(k) ==
  /\ pc # "crashed"
  /\ envSteps < MaxEnvSteps
  /\ annotations.some
  /\ k \in DOMAIN annotations.v
  /\ annotations' = Some([x \in DOMAIN annotations.v \ {k} |-> annotations.v[x]])
  /\ envSteps' = envSteps + 1
  /\ edited' = edited \cup {k}
  /\ disturbed' = TRUE
  /\ settled' = FALSE
  /\ UNCHANGED <<secret, pc, ingress, fetched, patch, outcome, template, substituted, rotated>>

SecretUpdate(s) ==
  /\ pc # "crashed"
  /\ envSteps < MaxEnvSteps
  /\ s # secret
  /\ secret' = s
  /\ envSteps' = envSteps + 1
  /\ rotated' = rotated \cup
       {k \in substituted \cap DOMAIN template.v :
          \E K \in DOMAIN Replacements(s).v \cap DOMAIN Replacements(secret).v :
            /\ Contains(template.v[k], Token(K))
            /\ Replacements(s).v[K] # Replacements(secret).v[K]}
  /\ disturbed' = TRUE
  /\ settled' = FALSE
  /\ UNCHANGED <<annotations, pc, ingress, fetched, patch, outcome, template, edited, substituted>>

Next ==
  \/ ReconcileStart
  \/ GetSecretFails
  \/ GetSecret
  \/ PatchIngress
  \/ PatchFails
  \/ \E w \in OwnerWrites : OwnerSet(w[1], w[2])
  \/ \E k \in OwnerRemoves : OwnerRemove(k)
  \/ \E s \in Secrets : SecretUpdate(s)

Spec == Init /\ [][Next]_vars

\* The controller runs a reconcile again and again (the requeue of every
\* outcome, and the watches), and its get and its patch calls return.
LiveSpec ==
  /\ Spec
  /\ WF_vars(ReconcileStart)
  /\ WF_vars(GetSecretFails \/ GetSecret)
  /\ WF_vars(PatchIngress \/ PatchFails)

\* ------------------------------------------------------------------ claims

\* The placeholder token of a secret key, and its occurrence in a text.
Placeholder(K) == <<"$">> \o K \o <<"$">>
Occurs(text, K) ==
  \E i \in 1..(Len(text) - Len(Placeholder(K)) + 1) :
    SubSeq(text, i, i + Len(Placeholder(K)) - 1) = Placeholder(K)

\* A text with every placeholder token of every key of `values` replaced, in
\* one pass from left to right; the text put in is not looked at again.
RECURSIVE SubstituteAll(_, _)
SubstituteAll(text, values) ==
  IF text = <<>> THEN <<>>
  ELSE LET here == {K \in DOMAIN values :
                      /\ Len(Placeholder(K)) <= Len(text)
                      /\ SubSeq(text, 1, Len(Placeholder(K))) = Placeholder(K)}
       IN IF here = {}
          THEN <<Head(text)>> \o SubstituteAll(Tail(text), values)
          ELSE LET K == CHOOSE K \in here : \A K2 \in here : Len(K2) >= Len(K)
               IN values[K] \o
                  SubstituteAll(SubSeq(text, Len(Placeholder(K)) + 1, Len(text)), values)

ReservedKeys == {SECRET_ANNOTATION, SECRET_ANNOTATION_STATE, LAST_APPLIED}

\* The reconcile under way or last ended has fetched its secret and apply has
\* gone through its loops: `patch` is what it staged.
Applied == fetched.some /\ pc \in {"patch", "idle"} /\ ~Replacements(fetched.v).panic

\* The values of the secret that reconcile fetched.
FetchedValues == Replacements(fetched.v).v

\* The journal the patch of that reconcile carries.
PatchJournal == from_str(patch.v[SECRET_ANNOTATION_STATE])

\* C1 (Idempotence): after a reconcile that succeeded, its patch applied, with
\* no change of the ingress or the secret since it started, the next reconcile
\* stages nothing and issues no patch call.
Idempotence == settled => pc # "patch"

\* C2 (Multiple placeholders, one pass): an annotation with no journal entry
\* whose value holds the tokens of two or more keys of the secret is staged, in
\* the one reconcile, with every token of every key replaced, and the journal
\* of the patch records its text as it was.
MultiplePlaceholdersOnePass ==
  Applied =>
    \A k \in DOMAIN ingress.v \ ReservedKeys :
      ( /\ k \notin DOMAIN OldItems(ingress.v)
        /\ Cardinality({K \in DOMAIN FetchedValues : Occurs(ingress.v[k], K)}) >= 2 )
      => /\ patch.some
         /\ k \in DOMAIN patch.v
         /\ patch.v[k] = SubstituteAll(ingress.v[k], FetchedValues)
         /\ PatchJournal.ok
         /\ k \in DOMAIN PatchJournal.v
         /\ PatchJournal.v[k] = ingress.v[k]

\* C3 (Rotation correctness): once a reconcile has succeeded with nothing
\* changed since it started, every annotation that an earlier reconcile
\* substituted and whose secret value was rotated afterwards (the owner having
\* written neither it nor the journal since, and the secret still having the
\* keys of its tokens) holds its template with the secret's present values, and
\* its journal entry is the template.
RotationCorrectness ==
  (settled /\ pc = "idle" /\ SECRET_ANNOTATION_STATE \notin edited) =>
    \A k \in (rotated \ edited) \ ReservedKeys :
      (\A K \in {A, B} : Occurs(template.v[k], K) => K \in DOMAIN Replacements(secret).v) =>
      /\ k \in DOMAIN annotations.v
      /\ annotations.v[k] = SubstituteAll(template.v[k], Replacements(secret).v)
      /\ k \in DOMAIN OldItems(annotations.v)
      /\ OldItems(annotations.v)[k] = template.v[k]

\* The annotation k of the snapshot has no journal to go by and holds the
\* token of the key K of the fetched secret, and of no other key.
SingleKey(k, K) ==
  /\ Occurs(ingress.v[k], K)
  /\ \A K2 \in DOMAIN FetchedValues \ {K} : ~Occurs(ingress.v[k], K2)

\* The patch sets the annotation k to `text` and its journal entry to the
\* annotation's value in the snapshot.
Patched(k, text) ==
  /\ patch.some
  /\ k \in DOMAIN patch.v
  /\ patch.v[k] = text
  /\ PatchJournal.ok
  /\ k \in DOMAIN PatchJournal.v
  /\ PatchJournal.v[k] = ingress.v[k]

\* C4 as claimed (Basic substitution): with no state annotation, an annotation
\* holding the token of one key K of the secret is patched to its value with
\* every occurrence of the token replaced, and the patch's journal maps its
\* key to the text it had.
BasicSubstitutionAsClaimed ==
  (Applied /\ SECRET_ANNOTATION_STATE \notin DOMAIN ingress.v) =>
    \A k \in DOMAIN ingress.v \ ReservedKeys : \A K \in DOMAIN FetchedValues :
      SingleKey(k, K) => Patched(k, SubstituteAll(ingress.v[k], FetchedValues))

\* C4 as amended (Basic substitution): the same, for an annotation whose value
\* with the tokens replaced differs from its present value (it does not when
\* the secret's value for K is the token $K$ itself).
BasicSubstitution ==
  (Applied /\ SECRET_ANNOTATION_STATE \notin DOMAIN ingress.v) =>
    \A k \in DOMAIN ingress.v \ ReservedKeys : \A K \in DOMAIN FetchedValues :
      (SingleKey(k, K) /\ SubstituteAll(ingress.v[k], FetchedValues) # ingress.v[k])
        => Patched(k, SubstituteAll(ingress.v[k], FetchedValues))

\* A patch that replaces two occurrences of one token, in an ingress without
\* a state annotation.
BasicSubstitutionWitness ==
  /\ Applied
  /\ SECRET_ANNOTATION_STATE \notin DOMAIN ingress.v
  /\ \E k \in DOMAIN ingress.v \ ReservedKeys : \E K \in DOMAIN FetchedValues :
       /\ SingleKey(k, K)
       /\ ingress.v[k] = Placeholder(K) \o <<"\"">> \o Placeholder(K)
       /\ Patched(k, FetchedValues[K] \o <<"\"">> \o FetchedValues[K])
       /\ FetchedValues[K] # Placeholder(K)

\* C5 (Reserved-key exclusion): no patch carries the trigger annotation or the
\* last-applied annotation, and the journal of a patch has no entry for any of
\* the three reserved keys.
ReservedKeyExclusion ==
  patch.some =>
    /\ SECRET_ANNOTATION \notin DOMAIN patch.v
    /\ LAST_APPLIED \notin DOMAIN patch.v
    /\ PatchJournal.ok
    /\ DOMAIN PatchJournal.v \cap ReservedKeys = {}

\* The annotation k of the snapshot has no journal entry and holds no token of
\* a key of the fetched secret.
NoPlaceholder(k) ==
  /\ k \notin DOMAIN OldItems(ingress.v)
  /\ \A K \in DOMAIN FetchedValues : ~Occurs(ingress.v[k], K)

\* C6 (No placeholder, no touch): whatever reconciles and changes of the secret
\* came before, a patch holds no value and no journal entry for an annotation
\* that has no journal entry and no token of a key of the secret.
NoPlaceholderNoTouch ==
  (Applied /\ patch.some) =>
    \A k \in DOMAIN ingress.v \ {SECRET_ANNOTATION_STATE} :
      NoPlaceholder(k) =>
        /\ k \notin DOMAIN patch.v
        /\ PatchJournal.ok
        /\ k \notin DOMAIN PatchJournal.v

\* A patch for an ingress that has an annotation of plain text beside the
\* one the patch substitutes.
NoPlaceholderNoTouchWitness ==
  /\ Applied
  /\ patch.some
  /\ o \in DOMAIN ingress.v
  /\ ingress.v[o] = <<"A", "-", "1">>
  /\ NoPlaceholder(o)
  /\ e \in DOMAIN patch.v

\* C7 (Outcome scheduling): a reconcile ends in one of three ways: Ok with no
\* timer, nothing fetched and nothing patched, when the snapshot has no
\* trigger annotation; Ok with a requeue after 300 seconds when the secret was
\* fetched; Err, requeued by error_policy after 60 seconds, when the get or the
\* patch failed.
OutcomeScheduling ==
  /\ outcome.result \in {"none", "running", "Ok", "Err"}
  /\ pc # "crashed"
  /\ outcome.result = "Ok" =>
       IF ingress.some /\ SECRET_ANNOTATION \in DOMAIN ingress.v
       THEN fetched.some /\ outcome.action.some /\ outcome.action.v = 300
       ELSE ~fetched.some /\ ~patch.some /\ ~outcome.action.some
  /\ outcome.result = "Err" =>
       /\ outcome.action.some /\ outcome.action.v = 60
       /\ ~fetched.some \/ patch.some

\* C8 (Missing secret): a reconcile whose get of the secret fails ends with
\* Err and the 60-second requeue, has sent no patch, and leaves the ingress's
\* annotations as they are; a patch is sent only after a secret was fetched.
MissingSecret ==
  [][ /\ (pc = "get_secret" /\ pc' # "get_secret" /\ ~fetched'.some) =>
          /\ outcome'.result = "Err"
          /\ outcome'.action.some /\ outcome'.action.v = 60
          /\ pc' = "idle"
          /\ ~patch'.some
          /\ annotations' = annotations
      /\ (pc' = "patch" \/ patch'.some) => fetched'.some ]_vars

\* A reconcile has ended on a failed get of the secret the trigger names.
MissingSecretWitness ==
  /\ outcome.result = "Err"
  /\ ingress.some
  /\ SECRET_ANNOTATION \in DOMAIN ingress.v
  /\ ~fetched.some
  /\ pc = "idle"

\* C9 (Undecodable secret value): a reconcile that fetched a secret with a
\* `data` value that is no UTF-8 ends with Err and the 60-second requeue, sends
\* no patch, and the controller runs on.
UndecodableSecretValue ==
  (fetched.some /\ fetched.v.data.some
     /\ \E K \in DOMAIN fetched.v.data.v : InvalidByte \in
          {fetched.v.data.v[K][i] : i \in 1..Len(fetched.v.data.v[K])}) =>
    /\ pc = "idle"
    /\ outcome.result = "Err"
    /\ outcome.action.some /\ outcome.action.v = 60
    /\ ~patch.some

\* The snapshot has a state annotation that is no JSON object of strings: the
\* text { or the text {"e":1}; and the secret fetched decodes.
MalformedJournalCase ==
  /\ fetched.some
  /\ SECRET_ANNOTATION_STATE \in DOMAIN ingress.v
  /\ ingress.v[SECRET_ANNOTATION_STATE]
       \in { <<"{">>, <<"{", "\"", "e", "\"", ":", "1", "}">> }
  /\ (fetched.v.data.some =>
        \A K \in DOMAIN fetched.v.data.v : \A i \in 1..Len(fetched.v.data.v[K]) :
          fetched.v.data.v[K][i] # InvalidByte)

\* C10 (Malformed journal): with a state annotation that does not parse, the
\* reconcile does not fail in apply's loops, and it stages what an empty journal
\* gives: each annotation whose own value, with the token of some key replaced,
\* differs from that value is patched, with its value as the journal entry, and
\* no other annotation is.
MalformedJournal ==
  MalformedJournalCase =>
    /\ pc \in {"patch", "idle"}
    /\ \A k \in DOMAIN ingress.v \ {SECRET_ANNOTATION_STATE, LAST_APPLIED} :
         LET keys == {K \in DOMAIN FetchedValues :
                        /\ Occurs(ingress.v[k], K)
                        /\ SubstituteAll(ingress.v[k], [x \in {K} |-> FetchedValues[K]])
                             # ingress.v[k]}
         IN IF keys = {}
            THEN ~patch.some \/ k \notin DOMAIN patch.v
            ELSE \E K \in keys :
                   Patched(k, SubstituteAll(ingress.v[k], [x \in {K} |-> FetchedValues[K]]))
    /\ (outcome.result = "Err" => patch.some)

\* A patch staged, after an earlier one, from a snapshot whose state
\* annotation is valid JSON but no object of strings.
MalformedJournalWitness ==
  /\ MalformedJournalCase
  /\ ingress.v[SECRET_ANNOTATION_STATE] # <<"{">>
  /\ e \in substituted
  /\ patch.some
  /\ e \in DOMAIN patch.v
  /\ outcome.result = "Ok"

\* C11 (Trigger removed): a reconcile of an ingress that has no trigger
\* annotation (it never had one, or the owner removed it) ends at once with Ok
\* and no timer, fetches no secret, sends no patch, and leaves every
\* annotation, the state annotation and the substituted values with it, as
\* it is.
TriggerRemoved ==
  [][ ( /\ pc = "idle"
        /\ envSteps' = envSteps
        /\ ~annotations.some \/ SECRET_ANNOTATION \notin DOMAIN annotations.v )
      => /\ pc' = "idle"
         /\ ~fetched'.some
         /\ ~patch'.some
         /\ annotations' = annotations
         /\ outcome'.result = "Ok"
         /\ ~outcome'.action.some ]_vars

\* A reconcile has ended on an ingress whose trigger annotation the owner
\* removed after a patch had substituted a value and written the journal.
TriggerRemovedWitness ==
  /\ pc = "idle"
  /\ outcome.result = "Ok"
  /\ ~outcome.action.some
  /\ ingress.some
  /\ SECRET_ANNOTATION \notin DOMAIN ingress.v
  /\ SECRET_ANNOTATION \in DOMAIN template.v
  /\ SECRET_ANNOTATION_STATE \in DOMAIN ingress.v
  /\ substituted # {}
  /\ annotations = ingress

\* C12 (Replacement set precedence): from the secret a reconcile fetched, apply
\* builds a replacement set that has, for every key of `data` or `stringData`,
\* one value: the `stringData` value when the key is in `stringData`, and
\* otherwise the `data` value decoded as UTF-8.
ReplacementSetPrecedence ==
  fetched.some =>
    LET data == IF fetched.v.data.some THEN fetched.v.data.v ELSE <<>>
        string_data == IF fetched.v.string_data.some THEN fetched.v.string_data.v ELSE <<>>
    IN /\ pc # "crashed"
       /\ ~Replacements(fetched.v).panic
       /\ DOMAIN FetchedValues = DOMAIN data \cup DOMAIN string_data
       /\ \A K \in DOMAIN FetchedValues :
            /\ K \in DOMAIN string_data => FetchedValues[K] = string_data[K]
            /\ K \notin DOMAIN string_data =>
                 /\ \A i \in 1..Len(data[K]) : data[K][i] # "0xFF"
                 /\ FetchedValues[K] = data[K]

\* C13 (Convergence): if the owner's writes and the secret's updates come to an
\* end and no patch call fails, the reconciles come to a point from which none
\* of them issues a patch and the annotations never change again.
Convergence ==
  ( /\ <>[][envSteps' = envSteps]_vars
    /\ [](~(outcome.result = "Err" /\ patch.some)) )
  => ( /\ <>[](pc # "patch")
       /\ <>[][annotations' = annotations]_vars )

\* C14 (Journal merge): the journal a patch writes is the journal of the
\* snapshot overlaid with the entries staged in this reconcile: the entry of
\* a key that is not staged is in it as it was, and the entry of a staged key
\* is the base its value was made from.
JournalMerge ==
  (Applied /\ patch.some) =>
    /\ PatchJournal.ok
    /\ DOMAIN PatchJournal.v =
         DOMAIN OldItems(ingress.v) \cup (DOMAIN patch.v \ {SECRET_ANNOTATION_STATE})
    /\ \A k \in DOMAIN OldItems(ingress.v) :
         k \in DOMAIN PatchJournal.v /\ PatchJournal.v[k] = OldItems(ingress.v)[k]
    /\ \A k \in DOMAIN patch.v \ ({SECRET_ANNOTATION_STATE} \cup DOMAIN OldItems(ingress.v)) :
         k \in DOMAIN PatchJournal.v /\ PatchJournal.v[k] = ingress.v[k]

\* The owner wrote the annotation k before the controller ran, with the token
\* of the key K in it and of no other key, and has written neither it nor the
\* state annotation since.
TemplateOfOnly(k, K) ==
  /\ k \in DOMAIN template.v
  /\ k \notin edited
  /\ SECRET_ANNOTATION_STATE \notin edited
  /\ Occurs(template.v[k], K)
  /\ \A K2 \in {A, B} \ {K} : ~Occurs(template.v[k], K2)

\* C15 (No re-scan, no injection): with a journal no hand has written, every
\* value a patch gives to an annotation whose template holds the token of the
\* one key K is that template with $K$ replaced by the secret's value for K: a
\* token of another key that came in with a secret's value is not replaced.
NoRescanNoInjection ==
  (Applied /\ patch.some) =>
    \A k \in DOMAIN patch.v \ ReservedKeys : \A K \in {A, B} :
      TemplateOfOnly(k, K) =>
        /\ K \in DOMAIN FetchedValues
        /\ patch.v[k] = SubstituteAll(template.v[k], [x \in {K} |-> FetchedValues[K]])

\* The texts the controller can make of a base: the base with the tokens of
\* some keys of a secret replaced by that secret's values.
Derivable(base) ==
  { SubstituteAll(base, [x \in Ks |-> Replacements(s).v[x]]) :
      <<s, Ks>> \in {y \in Secrets \X SUBSET {A, B} : y[2] \subseteq DOMAIN Replacements(y[1]).v} }

\* The annotation k of the snapshot has a journal entry, and a value that is
\* neither that entry nor a text the controller makes of it: the owner has
\* set it anew.
OwnerHasReset(k) ==
  /\ k \in DOMAIN OldItems(ingress.v)
  /\ ingress.v[k] # OldItems(ingress.v)[k]
  /\ ingress.v[k] \notin Derivable(OldItems(ingress.v)[k])

\* C16 (Owner reset of a substituted annotation): a reconcile that finds an
\* annotation the owner has set anew takes the owner's text as the base: with
\* no token of a key of the secret in it the annotation is in no patch; with
\* one, the patch gives it a text made of the owner's text and records the
\* owner's text as its journal entry.
OwnerReset ==
  Applied =>
    \A k \in DOMAIN ingress.v \ ReservedKeys :
      OwnerHasReset(k) =>
        IF \A K \in DOMAIN FetchedValues : ~Occurs(ingress.v[k], K)
        THEN ~patch.some \/ k \notin DOMAIN patch.v
        ELSE (patch.some /\ k \in DOMAIN patch.v) =>
               /\ patch.v[k] \in Derivable(ingress.v[k])
               /\ PatchJournal.ok
               /\ k \in DOMAIN PatchJournal.v
               /\ PatchJournal.v[k] = ingress.v[k]

\* The base of the annotation k of the snapshot: its journal entry, or with
\* none its value.
Base(k) ==
  LET journal == OldItems(ingress.v)
  IN IF k \in DOMAIN journal THEN journal[k] ELSE ingress.v[k]

\* The annotations of the snapshot that apply stages: those, the state and the
\* last-applied annotation apart, whose base holds the token of a key of the
\* secret and, with it replaced, differs from the annotation's value.
StagedKeys ==
  LET values == FetchedValues IN
  { k \in DOMAIN ingress.v \ {SECRET_ANNOTATION_STATE, LAST_APPLIED} :
      LET base == Base(k) IN
      \E K \in DOMAIN values :
        /\ Occurs(base, K)
        /\ SubstituteAll(base, [x \in {K} |-> values[K]]) # ingress.v[k] }

\* C17 (Patch planning): apply issues a patch call exactly when it staged an
\* annotation; the patch holds the staged keys, each with a value that is not
\* the annotation's value in the snapshot, and the state annotation, and no
\* other key.
PatchPlanning ==
  /\ patch.some => Applied
  /\ pc = "patch" => patch.some
  /\ Applied =>
       LET staged == StagedKeys IN
       /\ patch.some <=> staged # {}
       /\ patch.some =>
            /\ DOMAIN patch.v = staged \cup {SECRET_ANNOTATION_STATE}
            /\ \A k \in staged : patch.v[k] # ingress.v[k]

\* A patch call for the one staged annotation of an ingress that has also an
\* annotation without a token and a last-applied annotation with one.
PatchPlanningWitness ==
  /\ pc = "patch"
  /\ LAST_APPLIED \in DOMAIN ingress.v
  /\ Occurs(ingress.v[LAST_APPLIED], A)
  /\ o \in DOMAIN ingress.v
  /\ StagedKeys = {e}
  /\ DOMAIN patch.v = {e, SECRET_ANNOTATION_STATE}
  /\ patch.v[e] # ingress.v[e]

\* The live ingress's annotation k is not what the snapshot of the reconcile
\* under way has: another writer has set, changed or removed it since.
WrittenSinceSnapshot(k) ==
  IF k \in DOMAIN ingress.v
  THEN k \notin DOMAIN annotations.v \/ annotations.v[k] # ingress.v[k]
  ELSE k \in DOMAIN annotations.v

\* C18 (No clobbering of concurrent writers): when the patch call of a reconcile
\* returns, every annotation of the patch that another writer has written
\* since the reconcile's snapshot is as that writer left it.
NoClobbering ==
  [][ (pc = "patch" /\ pc' # "patch") =>
        \A k \in DOMAIN patch.v :
          WrittenSinceSnapshot(k) =>
            /\ (k \in DOMAIN annotations'.v) = (k \in DOMAIN annotations.v)
            /\ k \in DOMAIN annotations.v => annotations'.v[k] = annotations.v[k] ]_vars

\* The keys of the secrets in ascending order.
KeysAscending == <<A, B>>

\* The base of the annotation k with the tokens of the key K alone replaced.
SubstituteOne(k, K) == SubstituteAll(Base(k), [x \in {K} |-> FetchedValues[K]])

\* The keys of the fetched secret whose token is in the base of k and whose
\* substitution alone gives a text that is not k's value in the snapshot.
Candidates(k) ==
  LET base == Base(k) IN
  { K \in DOMAIN FetchedValues : Occurs(base, K) /\ SubstituteOne(k, K) # ingress.v[k] }

\* C19 (Per-key substitution from the base): the value a patch gives to an
\* annotation is its base with the tokens of one key replaced and those of the
\* other keys left as they are: the greatest key, in ascending order, among
\* those whose token is in the base and whose substitution alone differs from
\* the annotation's value in the snapshot.
PerKeySubstitution ==
  (Applied /\ patch.some) =>
    \A k \in DOMAIN patch.v \ {SECRET_ANNOTATION_STATE} :
      LET candidates == Candidates(k) IN
      /\ candidates # {}
      /\ \E i \in 1..Len(KeysAscending) :
           /\ KeysAscending[i] \in candidates
           /\ \A j \in (i + 1)..Len(KeysAscending) : KeysAscending[j] \notin candidates
           /\ patch.v[k] = SubstituteOne(k, KeysAscending[i])

\* A patch for an annotation whose base, its journal entry, has the tokens of
\* two keys: the greater key's substitution is the value it has, so the patch
\* gives it the base with the lesser key's tokens replaced.
PerKeySubstitutionWitness ==
  /\ pc = "patch"
  /\ e \in DOMAIN OldItems(ingress.v)
  /\ Base(e) = <<"$", "A", "$", "-", "$", "B", "$">>
  /\ ingress.v[e] = <<"$", "A", "$", "-", "2">>
  /\ Candidates(e) = {A}
  /\ patch.v[e] = <<"1", "-", "$", "B", "$">>

====
